---- MODULE Spec2Model ----
(***************************************************************************)
(* State-machine model of the ros_gremsy gimbal node (src/ros_gremsy.cpp). *)
(*                                                                         *)
(* The main thread runs the GimbalNode constructor: gimbal bring-up, timer *)
(* creation and then ros::spin(), which executes the queued callbacks      *)
(* (timer, goal subscription, dynamic reconfigure) one at a time.  The     *)
(* device, the goal producer, the timer manager and the reconfigure        *)
(* clients act asynchronously.  `trace` records every GimbalDevice call    *)
(* and every publish in the order in which the node makes them.            *)
(***************************************************************************)
EXTENDS Integers, Sequences, FiniteSets, TLC

\* ------------------------------------------------------------------ bounds
\* Status queries of the wait loop that may return something other than ON.
MaxPolls == 1
\* Asynchronous events over a run: goal commands sent, expirations of the
\* polling timer and configuration-change requests, in any mix.
MaxEvents == 2
\* Device calls over a run that meet a communication error on the serial link.
MaxFaults == 1

\* ------------------------------------------------------- device vocabulary
GIMBAL_STATE_OFF == "GIMBAL_STATE_OFF"
GIMBAL_STATE_TURNING_ON == "GIMBAL_STATE_TURNING_ON"
GIMBAL_STATE_ON == "GIMBAL_STATE_ON"
GimbalStates == {GIMBAL_STATE_OFF, GIMBAL_STATE_TURNING_ON, GIMBAL_STATE_ON}

TURN_ON == "TURN_ON"

\* What a non-void function yields when control flows off its end
\* (undefined behaviour): UNSPECIFIED is whatever the return register holds,
\* an enumerator or not; TRAP is an abnormal termination of the process.
UNSPECIFIED == "UNSPECIFIED"
TRAP == "TRAP"

GimbalModes == {"GIMBAL_OFF", "LOCK_MODE", "FOLLOW_MODE"}
AxisInputModes == {"CTRL_ANGLE_BODY_FRAME", "CTRL_ANGULAR_RATE",
                   "CTRL_ANGLE_ABSOLUTE_FRAME"}

\* control_gimbal_mode_t convertIntGimbalMode(int mode): the set of outcomes
\* of one call.  The switch has no default and nothing follows it.
convertIntGimbalMode(mode) ==
    CASE mode = 0 -> {"GIMBAL_OFF"}
      [] mode = 1 -> {"LOCK_MODE"}
      [] mode = 2 -> {"FOLLOW_MODE"}
      [] OTHER    -> {UNSPECIFIED, TRAP}

\* control_gimbal_axis_input_mode_t convertIntToAxisInputMode(int mode).
convertIntToAxisInputMode(mode) ==
    CASE mode = 0 -> {"CTRL_ANGLE_BODY_FRAME"}
      [] mode = 1 -> {"CTRL_ANGULAR_RATE"}
      [] mode = 2 -> {"CTRL_ANGLE_ABSOLUTE_FRAME"}
      [] OTHER    -> {UNSPECIFIED, TRAP}

\* ----------------------------------------------------------- configuration
\* ros_gremsy::ROSGremsyConfig, the fields the node reads.
BaseConfig ==
    [gimbal_mode          |-> 1,
     tilt_axis_input_mode |-> 0, tilt_axis_stabilize |-> TRUE,
     roll_axis_input_mode |-> 1, roll_axis_stabilize |-> FALSE,
     pan_axis_input_mode  |-> 2, pan_axis_stabilize  |-> FALSE,
     state_poll_rate      |-> 2]

ModeFields == {"gimbal_mode", "tilt_axis_input_mode", "roll_axis_input_mode",
               "pan_axis_input_mode"}

OtherConfig ==
    [gimbal_mode          |-> 2,
     tilt_axis_input_mode |-> 2, tilt_axis_stabilize |-> FALSE,
     roll_axis_input_mode |-> 0, roll_axis_stabilize |-> TRUE,
     pan_axis_input_mode  |-> 1, pan_axis_stabilize  |-> FALSE,
     state_poll_rate      |-> 4]

ThirdConfig ==
    [gimbal_mode          |-> 0,
     tilt_axis_input_mode |-> 1, tilt_axis_stabilize |-> FALSE,
     roll_axis_input_mode |-> 2, roll_axis_stabilize |-> FALSE,
     pan_axis_input_mode  |-> 0, pan_axis_stabilize  |-> TRUE,
     state_poll_rate      |-> 2]

\* Snapshots whose mode integers are all mapped and whose rate is positive.
ValidConfigs == {BaseConfig, OtherConfig, ThirdConfig}

\* Snapshots with one mode integer that no switch case maps.
UnmappedModeConfigs == {[BaseConfig EXCEPT ![f] = 3] : f \in ModeFields}

\* Snapshots whose poll rate is zero or negative.
BadRateConfigs == {[BaseConfig EXCEPT !.state_poll_rate = r] : r \in {0, -1}}

\* The snapshots in force when the node starts.
Configs == ValidConfigs \cup UnmappedModeConfigs \cup BadRateConfigs

\* The snapshots a client requests while the node runs.
RequestedConfigs == {OtherConfig, [BaseConfig EXCEPT !.state_poll_rate = 0]}

MappedInts == {0, 1, 2}

\* ---------------------------------------------------------------- telemetry
\* mavlink_raw_imu_t as get_gimbal_raw_imu() returns it.
RawImuSamples ==
    {[time_usec |-> 0, xacc |-> 1, yacc |-> 2, zacc |-> 3,
      xgyro |-> 4, ygyro |-> 5, zgyro |-> 6],
     [time_usec |-> 0, xacc |-> 6, yacc |-> 5, zacc |-> 4,
      xgyro |-> 3, ygyro |-> 2, zgyro |-> 1]}

\* The raw_imu member of get_gimbal_time_stamps().
RawImuTimeStamps == {7}

\* mavlink_mount_status_t as get_gimbal_mount_status() returns it.
MountStatuses ==
    {[pointing_a |-> 10, pointing_b |-> 20, pointing_c |-> 30],
     [pointing_a |-> 30, pointing_b |-> 10, pointing_c |-> 20]}

\* The vector of a geometry_msgs::Vector3Stamped.
Vector3(x, y, z) == [x |-> x, y |-> y, z |-> z]

\* Goal vectors the producer sends of its own.
GoalVectors == {Vector3(1, 2, 3)}

\* Locals of a callback that have not been assigned yet.
NoImu == [time_usec |-> 0, xacc |-> 0, yacc |-> 0, zacc |-> 0,
          xgyro |-> 0, ygyro |-> 0, zgyro |-> 0]
NoMount == [pointing_a |-> 0, pointing_b |-> 0, pointing_c |-> 0]
NoVector == Vector3(0, 0, 0)
\* The configuration field of a callback that carries none.
NoConfig == BaseConfig

\* -------------------------------------------------------------------- state
VARIABLES
    pc,          \* position of the main thread in GimbalNode::GimbalNode
    status,      \* the device's operating mode (owned by the device)
    config_,     \* GimbalNode::config_
    polls,       \* wait-loop status queries that did not return ON
    trace,       \* device calls and publishes made so far, in order
    mapped,      \* mode conversions made so far: (function, input, outcome)
    sent,        \* goal commands the producer has sent, in order
    goalq,       \* inbound queue of the /gimbal/goals subscription
    reconfs,     \* configuration-change requests made so far
    cbq,         \* the node's callback queue, served by ros::spin()
    timer,       \* the polling timer created by nh.createTimer
    ticks,       \* expirations of the polling timer so far
    running,     \* callbacks being executed by the spinner
    faults       \* entries of `trace` whose device call met a link error

vars == <<pc, status, config_, polls, trace, mapped, sent, goalq, cbq,
          reconfs, timer, ticks, running, faults>>

\* One entry of `trace`: a GimbalDevice call with its arguments (for a
\* getter, the value returned) or a publish with its message.  `id` is the
\* timer expiration (for the calls of a tick) or the arrival number of the
\* goal command (for a move); 0 for bring-up.
Event(op, arg, id) == [op |-> op, arg |-> arg, id |-> id]

DeviceOps == {"get_gimbal_status", "set_gimbal_motor_mode", "set_gimbal_mode",
              "set_gimbal_axes_mode", "get_gimbal_raw_imu",
              "get_gimbal_time_stamps", "get_gimbal_mount_status",
              "set_gimbal_move"}
TelemetryOps == {"get_gimbal_raw_imu", "get_gimbal_time_stamps",
                 "get_gimbal_mount_status"}
PublishOps == {"imu_pub.publish", "encoder_pub.publish"}
\* What gimbalStateTimerCallback does, and what any callback does.
TickOps == {"get_gimbal_raw_imu", "get_gimbal_time_stamps",
            "get_gimbal_mount_status", "imu_pub.publish",
            "encoder_pub.publish"}
SpinOps == {"get_gimbal_raw_imu", "get_gimbal_time_stamps",
            "get_gimbal_mount_status", "imu_pub.publish",
            "encoder_pub.publish", "set_gimbal_move"}

\* The state when the constructor reaches "Config Gimbal": setCallback has
\* delivered the initial snapshot into config_, the publishers and the goal
\* subscription exist, the serial port and the SDK have been started.
Init ==
    /\ pc = "check_on"
    /\ status \in GimbalStates
    /\ config_ \in Configs
    /\ polls = 0
    /\ trace = <<>>
    /\ mapped = {}
    /\ sent = <<>>
    /\ goalq = <<>>
    /\ cbq = <<>>
    /\ reconfs = 0
    /\ timer = [armed |-> FALSE, waiting |-> FALSE, period |-> <<0, 1>>]
    /\ ticks = 0
    /\ running = {}
    /\ faults = {}

\* ----------------------------------------------------------------- bring-up
\* A variant that turns the motors on whenever the gimbal is not yet on.
NeedsTurnOnUnlessOn(mode) == mode # GIMBAL_STATE_ON

\* A variant of the wait loop that only waits while the gimbal is off.
StillWaitingWhileOff(mode) == mode = GIMBAL_STATE_OFF

\* if (get_gimbal_status().mode == GIMBAL_STATE_OFF)
NeedsTurnOn(mode) == mode = GIMBAL_STATE_OFF

\* while (get_gimbal_status().mode != GIMBAL_STATE_ON)
StillWaiting(mode) == mode # GIMBAL_STATE_ON

\* The first status query.
CheckOn ==
    /\ pc = "check_on"
    /\ trace' = Append(trace, Event("get_gimbal_status", <<status>>, 0))
    /\ pc' = IF NeedsTurnOn(status) THEN "turn_on" ELSE "wait_on"
    /\ UNCHANGED <<faults, status, config_, polls, mapped, sent, goalq, cbq,
                   reconfs, timer, ticks, running>>

\* gimbal_interface_->set_gimbal_motor_mode(TURN_ON)
TurnOn ==
    /\ pc = "turn_on"
    /\ trace' = Append(trace, Event("set_gimbal_motor_mode", <<TURN_ON>>, 0))
    /\ pc' = "wait_on"
    /\ UNCHANGED <<faults, status, config_, polls, mapped, sent, goalq, cbq,
                   reconfs, timer, ticks, running>>

\* One evaluation of the wait loop's condition, and the 50 ms sleep when it
\* holds.
WaitOn ==
    /\ pc = "wait_on"
    /\ StillWaiting(status) => polls < MaxPolls
    /\ trace' = Append(trace, Event("get_gimbal_status", <<status>>, 0))
    /\ IF StillWaiting(status)
         THEN pc' = "wait_on" /\ polls' = polls + 1
         ELSE pc' = "set_mode" /\ polls' = polls
    /\ UNCHANGED <<faults, status, config_, mapped, sent, goalq, cbq, reconfs,
                   timer, ticks, running>>

\* gimbal_interface_->set_gimbal_mode(convertIntGimbalMode(config_.gimbal_mode))
SetGimbalMode ==
    /\ pc = "set_mode"
    /\ \E m \in convertIntGimbalMode(config_.gimbal_mode) :
         /\ mapped' = mapped \cup
                {<<"convertIntGimbalMode", config_.gimbal_mode, m>>}
         /\ IF m = TRAP
              THEN pc' = "aborted" /\ trace' = trace
              ELSE /\ pc' = "set_axes"
                   /\ trace' = Append(trace, Event("set_gimbal_mode", <<m>>, 0))
    /\ UNCHANGED <<faults, status, config_, polls, sent, goalq, cbq, reconfs,
                   timer, ticks, running>>

\* control_gimbal_axis_mode_t
AxisMode(input_mode, stabilize) ==
    [input_mode |-> input_mode, stabilize |-> stabilize]

\* A variant that builds the roll argument from the pan fields and the pan
\* argument from the roll fields.
AxesModesCrossWired(config, t, r, p) ==
    <<AxisMode(t, config.tilt_axis_stabilize),
      AxisMode(p, config.pan_axis_stabilize),
      AxisMode(r, config.roll_axis_stabilize)>>

\* tilt_axis_mode, roll_axis_mode, pan_axis_mode: the arguments of
\* set_gimbal_axes_mode, from the converted input modes t, r, p.
AxesModes(config, t, r, p) ==
    <<AxisMode(t, config.tilt_axis_stabilize),
      AxisMode(r, config.roll_axis_stabilize),
      AxisMode(p, config.pan_axis_stabilize)>>

\* The three axis modes are built one after the other and sent in one call.
SetGimbalAxesMode ==
    /\ pc = "set_axes"
    /\ \E t \in convertIntToAxisInputMode(config_.tilt_axis_input_mode),
          r \in convertIntToAxisInputMode(config_.roll_axis_input_mode),
          p \in convertIntToAxisInputMode(config_.pan_axis_input_mode) :
         LET ct == <<"convertIntToAxisInputMode", config_.tilt_axis_input_mode, t>>
             cr == <<"convertIntToAxisInputMode", config_.roll_axis_input_mode, r>>
             cp == <<"convertIntToAxisInputMode", config_.pan_axis_input_mode, p>>
         IN  IF t = TRAP
               THEN pc' = "aborted" /\ trace' = trace
                    /\ mapped' = mapped \cup {ct}
             ELSE IF r = TRAP
               THEN pc' = "aborted" /\ trace' = trace
                    /\ mapped' = mapped \cup {ct, cr}
             ELSE IF p = TRAP
               THEN pc' = "aborted" /\ trace' = trace
                    /\ mapped' = mapped \cup {ct, cr, cp}
             ELSE /\ pc' = "create_timer"
                  /\ mapped' = mapped \cup {ct, cr, cp}
                  /\ trace' = Append(trace,
                        Event("set_gimbal_axes_mode",
                              AxesModes(config_, t, r, p), 0))
    /\ UNCHANGED <<faults, status, config_, polls, sent, goalq, cbq, reconfs,
                   timer, ticks, running>>

\* ros::Duration(1/config_.state_poll_rate): the quotient as the fraction
\* <<numerator, denominator>>; a denominator of 0 is the infinite quotient
\* of the floating-point division.
PollPeriod(state_poll_rate) == <<1, state_poll_rate>>

\* What constructing a ros::Duration from a quotient does: a finite one is
\* stored; an infinite one is outside the range of a Duration, which either
\* throws (nothing catches it) or stores an unspecified duration.
DurationOutcomes(period) ==
    IF period[2] = 0 THEN {TRAP, UNSPECIFIED} ELSE {"stored"}

\* nh.createTimer(ros::Duration(1/config_.state_poll_rate), ...), after which
\* the constructor enters ros::spin().
CreateTimer ==
    /\ pc = "create_timer"
    /\ LET period == PollPeriod(config_.state_poll_rate)
       IN  \E d \in DurationOutcomes(period) :
             IF d = TRAP
               THEN pc' = "aborted" /\ timer' = timer
               ELSE /\ pc' = "spin"
                    /\ timer' = [armed |-> TRUE, waiting |-> TRUE,
                                 period |-> period]
    /\ UNCHANGED <<faults, status, config_, polls, trace, mapped, sent, goalq, cbq,
                   reconfs, ticks, running>>

\* ------------------------------------------------------------- environment
\* The process is alive: nothing has terminated it.
Alive == pc # "aborted"

\* The asynchronous events so far.
Events == Len(sent) + ticks + reconfs

\* nh.subscribe("/gimbal/goals", 1, ...): the depth of the inbound queue.
GoalQueueSize == 1

\* A variant of the inbound queue that discards the arriving message when
\* it is full.
SubscriptionPushKeepOldest(q, item) ==
    IF Len(q) >= GoalQueueSize THEN q ELSE Append(q, item)

\* Pushing a message on the subscription's inbound queue: when the queue is
\* full its oldest message is discarded.
SubscriptionPush(q, item) ==
    IF Len(q) >= GoalQueueSize THEN Append(Tail(q), item) ELSE Append(q, item)

\* An entry of the callback queue.
Callback(kind, id, config) == [kind |-> kind, id |-> id, config |-> config]

\* The encoder vectors published so far.
PublishedVectors ==
    {trace[i].arg[1] : i \in {j \in 1..Len(trace) :
                                 trace[j].op = "encoder_pub.publish"}}

\* The producer sends a goal command: a vector of its own or a published
\* encoder vector fed back.  The message is queued on arrival, whatever the
\* main thread is doing; a callback is queued unless a message was discarded.
GoalArrive ==
    /\ Alive
    /\ Events < MaxEvents
    /\ \E v \in GoalVectors \cup PublishedVectors :
         /\ sent' = Append(sent, v)
         /\ goalq' = SubscriptionPush(goalq,
                        [message |-> v, id |-> Len(sent) + 1])
    /\ cbq' = IF Len(goalq) >= GoalQueueSize
                THEN cbq
                ELSE Append(cbq, Callback("goal", 0, NoConfig))
    /\ UNCHANGED <<faults, pc, status, config_, polls, trace, mapped, reconfs, timer,
                   ticks, running>>

\* A dynamic-reconfigure client requests a configuration change; the request
\* is a service call, queued for the spinner.
ReconfigureRequest ==
    /\ Alive
    /\ Events < MaxEvents
    /\ reconfs' = reconfs + 1
    /\ \E c \in RequestedConfigs : cbq' = Append(cbq, Callback("reconfigure", 0, c))
    /\ UNCHANGED <<faults, pc, status, config_, polls, trace, mapped, sent, goalq,
                   timer, ticks, running>>

\* The timer expires: its callback is queued, and the timer is not scheduled
\* again until that callback has run.
TimerDue ==
    /\ Alive
    /\ timer.armed /\ timer.waiting
    /\ Events < MaxEvents
    /\ ticks' = ticks + 1
    /\ timer' = [timer EXCEPT !.waiting = FALSE]
    /\ cbq' = Append(cbq, Callback("timer", ticks + 1, NoConfig))
    /\ UNCHANGED <<faults, pc, status, config_, polls, trace, mapped, sent, goalq,
                   reconfs, running>>

\* The device changes its operating mode on its own.  The node reads the
\* mode during bring-up only, so later changes are not followed.
DeviceChange ==
    /\ pc \in {"check_on", "turn_on", "wait_on"}
    /\ \E s \in GimbalStates \ {status} : status' = s
    /\ UNCHANGED <<faults, pc, config_, polls, trace, mapped, sent, goalq, cbq,
                   reconfs, timer, ticks, running>>

\* The serial link fails during the device call being made.  The calls used
\* here report nothing to their caller (the setters' results are not looked
\* at, the getters return what the SDK last stored), so the node goes on as
\* after a successful call; the entry of the call is marked.
LinkError ==
    /\ Alive
    /\ trace # <<>> /\ trace[Len(trace)].op \in DeviceOps
    /\ Len(trace) \notin faults
    /\ Cardinality(faults) < MaxFaults
    /\ faults' = faults \cup {Len(trace)}
    /\ UNCHANGED <<pc, status, config_, polls, trace, mapped, sent, goalq,
                   cbq, reconfs, timer, ticks, running>>

\* ------------------------------------------------------------------ spinner
\* A variant that serves callbacks from construction on, as a spinner
\* started before bring-up would.
SpinningFromStart == pc \in {"check_on", "turn_on", "wait_on", "set_mode",
                             "set_axes", "create_timer", "spin"}

\* A variant that also serves callbacks from inside the wait loop.
SpinningOrWaiting == pc \in {"wait_on", "spin"}

\* A variant with two spinner threads.
CanRunCallbackOnTwoThreads == Cardinality(running) < 2

\* ros::spin() is where callbacks are executed: none runs before the
\* constructor reaches it.
Spinning == pc = "spin"

\* ros::spin() serves the callback queue from the calling thread alone: the
\* next callback starts when the previous one has returned.
CanRunCallback == running = {}

\* A callback in execution: its kind, the next step, its argument and locals.
Frame(kind, step, id, message, config, imu_mav, mount_status) ==
    [kind |-> kind, step |-> step, id |-> id, message |-> message,
     config |-> config, imu_mav |-> imu_mav, mount_status |-> mount_status]

\* The spinner takes a timer callback: gimbalStateTimerCallback is entered.
BeginTimerCallback ==
    /\ Spinning /\ CanRunCallback
    /\ cbq # <<>> /\ Head(cbq).kind = "timer"
    /\ cbq' = Tail(cbq)
    /\ running' = running \cup
         {Frame("timer", 1, Head(cbq).id, NoVector, NoConfig, NoImu, NoMount)}
    /\ UNCHANGED <<faults, pc, status, config_, polls, trace, mapped, sent, goalq,
                   reconfs, timer, ticks>>

\* A variant of the translation that fills the two vectors from each other's
\* fields.
convertImuGyroFirst(message) ==
    [linear_acceleration |-> Vector3(message.xgyro, message.ygyro, message.zgyro),
     angular_velocity    |-> Vector3(message.xacc, message.yacc, message.zacc)]

\* sensor_msgs::Imu convertImuMavlinkMessageToROSMessage(mavlink_raw_imu_t)
convertImuMavlinkMessageToROSMessage(message) ==
    [linear_acceleration |-> Vector3(message.xacc, message.yacc, message.zacc),
     angular_velocity    |-> Vector3(message.xgyro, message.ygyro, message.zgyro)]

\* encoder_ros_msg.vector as filled from mount_status.
EncoderVector(mount_status) ==
    Vector3(mount_status.pointing_b, mount_status.pointing_a,
            mount_status.pointing_c)

\* A variant that handles the encoder before the IMU.
TickProgramEncoderFirst ==
    <<"get_gimbal_mount_status", "encoder_pub.publish", "get_gimbal_raw_imu",
      "get_gimbal_time_stamps", "imu_pub.publish">>

\* The statements of gimbalStateTimerCallback that touch the device or a
\* publisher, in program order.
TickProgram ==
    <<"get_gimbal_raw_imu", "get_gimbal_time_stamps", "imu_pub.publish",
      "get_gimbal_mount_status", "encoder_pub.publish">>

\* The next statement of a running gimbalStateTimerCallback; returning from
\* the last one lets the timer be scheduled again.
TickStep ==
    \E f \in running :
      /\ f.kind = "timer"
      /\ LET op   == TickProgram[f.step]
             last == f.step = Len(TickProgram)
             next(g) == IF last THEN running \ {f}
                        ELSE (running \ {f}) \cup {[g EXCEPT !.step = f.step + 1]}
         IN  /\ CASE op = "get_gimbal_raw_imu" ->
                       \E s \in RawImuSamples :
                         /\ trace' = Append(trace, Event(op, <<s>>, f.id))
                         /\ running' = next([f EXCEPT !.imu_mav = s])
                  [] op = "get_gimbal_time_stamps" ->
                       \E t \in RawImuTimeStamps :
                         /\ trace' = Append(trace, Event(op, <<t>>, f.id))
                         /\ running' =
                              next([f EXCEPT !.imu_mav.time_usec = t])
                  [] op = "imu_pub.publish" ->
                       /\ trace' = Append(trace,
                            Event(op,
                              <<convertImuMavlinkMessageToROSMessage(f.imu_mav)>>,
                              f.id))
                       /\ running' = next(f)
                  [] op = "get_gimbal_mount_status" ->
                       \E m \in MountStatuses :
                         /\ trace' = Append(trace, Event(op, <<m>>, f.id))
                         /\ running' = next([f EXCEPT !.mount_status = m])
                  [] op = "encoder_pub.publish" ->
                       /\ trace' = Append(trace,
                            Event(op, <<EncoderVector(f.mount_status)>>, f.id))
                       /\ running' = next(f)
             /\ timer' = IF last THEN [timer EXCEPT !.waiting = TRUE] ELSE timer
      /\ UNCHANGED <<faults, pc, status, config_, polls, mapped, sent, goalq, cbq,
                     reconfs, ticks>>

\* The spinner takes a goal callback: the oldest queued message is removed
\* from the inbound queue and setGoalsCallback is entered with it.
BeginGoalCallback ==
    /\ Spinning /\ CanRunCallback
    /\ cbq # <<>> /\ Head(cbq).kind = "goal"
    /\ cbq' = Tail(cbq)
    /\ goalq' = Tail(goalq)
    /\ running' = running \cup
         {Frame("goal", 1, Head(goalq).id, Head(goalq).message, NoConfig,
                NoImu, NoMount)}
    /\ UNCHANGED <<faults, pc, status, config_, polls, trace, mapped, sent, reconfs,
                   timer, ticks>>

\* A variant that forwards the vector in x, y, z order.
GoalToMoveUnswapped(vector) ==
    [pitch |-> vector.x, roll |-> vector.y, yaw |-> vector.z]

\* set_gimbal_move(message.vector.y, message.vector.x, message.vector.z):
\* the arguments are pitch, roll, yaw.
GoalToMove(vector) ==
    [pitch |-> vector.y, roll |-> vector.x, yaw |-> vector.z]

\* setGoalsCallback makes its device call and returns.
SetGoals ==
    \E f \in running :
      /\ f.kind = "goal"
      /\ trace' = Append(trace,
                    Event("set_gimbal_move", <<GoalToMove(f.message)>>, f.id))
      /\ running' = running \ {f}
      /\ UNCHANGED <<faults, pc, status, config_, polls, mapped, sent, goalq, cbq,
                     reconfs, timer, ticks>>

\* The spinner takes a configuration-change request: reconfigureCallback is
\* entered with the requested snapshot.
BeginReconfigureCallback ==
    /\ Spinning /\ CanRunCallback
    /\ cbq # <<>> /\ Head(cbq).kind = "reconfigure"
    /\ cbq' = Tail(cbq)
    /\ running' = running \cup
         {Frame("reconfigure", 1, 0, NoVector, Head(cbq).config, NoImu, NoMount)}
    /\ UNCHANGED <<faults, pc, status, config_, polls, trace, mapped, sent, goalq,
                   reconfs, timer, ticks>>

\* A variant of reconfigureCallback that also sends the new gimbal mode to the
\* device.
ReconfigureAndResend ==
    \E f \in running :
      /\ f.kind = "reconfigure"
      /\ config_' = f.config
      /\ \E m \in convertIntGimbalMode(f.config.gimbal_mode) \ {TRAP} :
            trace' = Append(trace, Event("set_gimbal_mode", <<m>>, 0))
      /\ running' = running \ {f}
      /\ UNCHANGED <<faults, pc, status, polls, mapped, sent, goalq, cbq,
                     reconfs, timer, ticks>>

\* config_ = config;
Reconfigure ==
    \E f \in running :
      /\ f.kind = "reconfigure"
      /\ config_' = f.config
      /\ running' = running \ {f}
      /\ UNCHANGED <<faults, pc, status, polls, trace, mapped, sent, goalq, cbq,
                     reconfs, timer, ticks>>

\* ------------------------------------------------------------ specification
Next ==
    \/ CheckOn
    \/ TurnOn
    \/ WaitOn
    \/ SetGimbalMode
    \/ SetGimbalAxesMode
    \/ CreateTimer
    \/ BeginTimerCallback
    \/ TickStep
    \/ BeginGoalCallback
    \/ SetGoals
    \/ BeginReconfigureCallback
    \/ Reconfigure
    \/ GoalArrive
    \/ ReconfigureRequest
    \/ TimerDue
    \/ DeviceChange

Spec == Init /\ [][Next]_vars

\* The statements of the constructor up to ros::spin().
Bringup ==
    \/ CheckOn
    \/ TurnOn
    \/ WaitOn
    \/ SetGimbalMode
    \/ SetGimbalAxesMode
    \/ CreateTimer

\* The main thread keeps running: a statement of the constructor that can
\* execute does execute.
LiveSpec == Init /\ [][Next]_vars /\ WF_vars(Bringup)

\* The same program on a serial link that can fail.
NextFault == Next \/ LinkError
FaultSpec == Init /\ [][NextFault]_vars

\* ------------------------------------------------------------------ helpers
\* Positions of the trace at which `op` was called.
Calls(op) == {i \in 1..Len(trace) : trace[i].op = op}

\* Positions of the trace holding one of the operations `ops`.
CallsOf(ops) == {i \in 1..Len(trace) : trace[i].op \in ops}

\* The main thread is still inside bring-up (before the timer is created).
InBringup == pc \in {"check_on", "turn_on", "wait_on", "set_mode", "set_axes"}

\* ---------------------------------------------------------------- bring-up
\* C1: over the whole run set_gimbal_mode and set_gimbal_axes_mode are each
\* issued at most once, and exactly once as soon as bring-up has passed the
\* statement that issues them (they are never issued again while the node
\* spins); set_gimbal_mode comes before set_gimbal_axes_mode; and neither is
\* issued before a status query has returned ON.
C1_ModesOnceInOrderAfterOn ==
    /\ Cardinality(Calls("set_gimbal_mode")) <= 1
    /\ Cardinality(Calls("set_gimbal_axes_mode")) <= 1
    /\ pc \in {"set_axes", "create_timer", "spin"}
         => Cardinality(Calls("set_gimbal_mode")) = 1
    /\ pc \in {"create_timer", "spin"}
         => Cardinality(Calls("set_gimbal_axes_mode")) = 1
    /\ \A i \in Calls("set_gimbal_axes_mode") :
         \E j \in Calls("set_gimbal_mode") : j < i
    /\ \A i \in Calls("set_gimbal_mode") :
         \E j \in Calls("get_gimbal_status") :
           j < i /\ trace[j].arg[1] = GIMBAL_STATE_ON

\* C1 witness: the gimbal was off at first, the wait loop saw it not yet on,
\* bring-up completed, and the node has since served a configuration change
\* and made further device calls.
C1_Witness ==
    /\ pc = "spin"
    /\ trace[1].arg[1] = GIMBAL_STATE_OFF
    /\ polls >= 1
    /\ Calls("set_gimbal_mode") # {} /\ Calls("set_gimbal_axes_mode") # {}
    /\ reconfs >= 1 /\ config_.state_poll_rate = 0
    /\ trace[Len(trace)].op \notin {"set_gimbal_mode", "set_gimbal_axes_mode"}

\* C2: the motor-on command is issued exactly once when the first status
\* query returns OFF and not at all when it returns anything else; it is the
\* call right after the first status query, hence before the wait loop's
\* polling, and the wait loop never issues it, whatever it observes.
C2_MotorOnOnceIffFirstOff ==
    /\ Cardinality(Calls("set_gimbal_motor_mode")) <= 1
    /\ \A i \in Calls("set_gimbal_motor_mode") :
         /\ i = 2
         /\ trace[1].op = "get_gimbal_status"
         /\ trace[1].arg[1] = GIMBAL_STATE_OFF
         /\ trace[i].arg[1] = TURN_ON
    /\ (pc \notin {"check_on", "turn_on"} /\ trace[1].arg[1] = GIMBAL_STATE_OFF)
         => Cardinality(Calls("set_gimbal_motor_mode")) = 1
    /\ (pc # "check_on" /\ trace[1].arg[1] # GIMBAL_STATE_OFF)
         => Calls("set_gimbal_motor_mode") = {}

\* C2 witness: the first query returned OFF, the motors were turned on, and
\* the wait loop then still observed OFF.
C2_Witness ==
    /\ Len(trace) >= 3
    /\ trace[1].arg[1] = GIMBAL_STATE_OFF
    /\ trace[2].op = "set_gimbal_motor_mode"
    /\ trace[3].op = "get_gimbal_status" /\ trace[3].arg[1] = GIMBAL_STATE_OFF
    /\ pc = "spin"

\* C3: no telemetry read, no publish and no set_gimbal_move happens before
\* set_gimbal_axes_mode has been issued, and none while the main thread is
\* still in bring-up, although goal commands and configuration changes
\* arrive during bring-up.
C3_NothingBeforeBringup ==
    /\ LET axes == Calls("set_gimbal_axes_mode")
       IN  \A i \in CallsOf(SpinOps) : \E j \in axes : j < i
    /\ InBringup => running = {}

\* C3 witness: bring-up is waiting for ON after an unsuccessful poll while a
\* goal command and a configuration change are queued and undelivered.
C3_Witness ==
    /\ pc = "wait_on" /\ polls >= 1
    /\ goalq # <<>>
    /\ \E i \in 1..Len(cbq) : cbq[i].kind = "reconfigure"
    /\ \E i \in 1..Len(cbq) : cbq[i].kind = "goal"
    /\ CallsOf(SpinOps) = {}

\* ------------------------------------------------------------ goal dispatch
\* Arrival numbers of the goal commands dispatched so far, taken by a running
\* setGoalsCallback, and waiting in the inbound queue.
Dispatched == {trace[i].id : i \in Calls("set_gimbal_move")}
InFlight == {f.id : f \in {g \in running : g.kind = "goal"}}
Queued == {goalq[i].id : i \in 1..Len(goalq)}

\* The set_gimbal_move calls are made in arrival order, none twice, each with
\* the reordered vector of the command it stands for; what is being
\* dispatched arrived later, and what is waiting later still.
MovesInArrivalOrder ==
    LET moves == Calls("set_gimbal_move")
        done  == Dispatched
        busy  == InFlight
    IN  /\ \A i, j \in moves : i < j => trace[i].id < trace[j].id
        /\ \A i \in moves :
              /\ trace[i].id \in 1..Len(sent)
              /\ trace[i].arg[1] = [pitch |-> sent[trace[i].id].y,
                                    roll  |-> sent[trace[i].id].x,
                                    yaw   |-> sent[trace[i].id].z]
        /\ \A n \in busy : \A m \in done : m < n
        /\ \A n \in Queued : \A m \in done \cup busy : m < n
        /\ Cardinality(busy) = Cardinality({g \in running : g.kind = "goal"})

\* C4 as stated: no goal command is ever lost, so that every command sent
\* has been dispatched, is being dispatched or is waiting, and the device
\* calls are made in arrival order, one per command.
C4_EveryGoalDispatchedOnce ==
    /\ MovesInArrivalOrder
    /\ Dispatched \cup InFlight \cup Queued = 1..Len(sent)

\* C4 amended: each goal command yields at most one set_gimbal_move, the
\* calls are made in arrival order with none duplicated and with the
\* reordered vector of their command, and the most recent command is never
\* lost: it has been dispatched, is being dispatched or is waiting in the
\* inbound queue, which never holds more than one command.  Only a command
\* followed by a later one can be lost.
C4_LatestGoalDispatchedInOrder ==
    LET known == Dispatched \cup InFlight \cup Queued
    IN  /\ MovesInArrivalOrder
        /\ Len(sent) > 0 => Len(sent) \in known
        /\ Len(goalq) <= GoalQueueSize
        /\ \A n \in 1..Len(sent) : n \notin known => n < Len(sent)
        /\ Cardinality(Dispatched) = Cardinality(Calls("set_gimbal_move"))

\* C4 witness: the first command was still queued when the second arrived
\* and was lost; the second has been dispatched.
C4_Witness ==
    /\ Len(sent) = 2
    /\ Dispatched = {2}
    /\ InFlight = {} /\ Queued = {}

\* ------------------------------------------------------------ polling cycle
\* The order of a tick's steps.
TickOrder ==
    <<"get_gimbal_raw_imu", "get_gimbal_time_stamps", "imu_pub.publish",
      "get_gimbal_mount_status", "encoder_pub.publish">>

\* The place of a step in that order.
StepOf(op) == CHOOSE k \in 1..Len(TickOrder) : TickOrder[k] = op

\* An entry of the trace made by a tick.
IsTickEvent(e) == e.op \in TickOps

\* C5: what the ticks do, taken in the order of the trace, is tick 1's steps,
\* then tick 2's, and so on, each tick making its steps in the order read raw
\* IMU, read timestamps, publish IMU, read mount status, publish encoder:
\* the first entry is the first step of a tick, and each next entry is
\* either the next step of the same tick or, after a tick's last step, the
\* first step of a later tick.  So within a tick the IMU publish precedes
\* the encoder publish, and all publishes of tick n precede those of any
\* later tick.
C5_TickStepsInOrder ==
    LET te == SelectSeq(trace, IsTickEvent)
    IN  /\ Len(te) > 0 => StepOf(te[1].op) = 1 /\ te[1].id >= 1
        /\ \A k \in 1..(Len(te) - 1) :
              \/ /\ te[k + 1].id = te[k].id
                 /\ StepOf(te[k + 1].op) = StepOf(te[k].op) + 1
              \/ /\ te[k + 1].id > te[k].id
                 /\ StepOf(te[k].op) = Len(TickOrder)
                 /\ StepOf(te[k + 1].op) = 1

\* C5 witness: two ticks have run to completion.
C5_Witness ==
    /\ Cardinality(Calls("encoder_pub.publish")) = 2
    /\ Cardinality(Calls("imu_pub.publish")) = 2
    /\ running = {}

\* -------------------------------------------------------- mutual exclusion
\* The callbacks in execution that still have device calls to make: a goal
\* callback, or a tick that has not read the mount status yet.
InDevice ==
    {f \in running :
       \/ f.kind = "goal"
       \/ f.kind = "timer" /\ f.step <= 4}

\* An entry of the trace that is a device call.
IsDeviceCall(e) == e.op \in DeviceOps

\* C6: at most one producer of device traffic is at work at any time: no
\* callback runs while the main thread is in bring-up, at most one callback
\* with device calls to make is in execution, and among the device calls of
\* the trace those of one tick are contiguous: a tick's device call other
\* than its last (the mount status read) is followed by a device call of the
\* same tick, never by a move or by a call of another tick.
C6_DeviceCallsExclusive ==
    /\ InBringup => InDevice = {}
    /\ Cardinality(InDevice) <= 1
    /\ Cardinality({f \in running : f.kind = "timer"}) <= 1
    /\ LET dc == SelectSeq(trace, IsDeviceCall)
       IN  \A k \in 1..(Len(dc) - 1) :
             dc[k].op \in {"get_gimbal_raw_imu", "get_gimbal_time_stamps"}
               => dc[k + 1].op \in TelemetryOps /\ dc[k + 1].id = dc[k].id

\* C6 witness: a tick is between its device calls while a goal command has
\* arrived; its callback is queued behind the tick and has not started.
C6_Witness ==
    /\ \E f \in running : f.kind = "timer" /\ f.step \in 2..4
    /\ \E i \in 1..Len(cbq) : cbq[i].kind = "goal"
    /\ goalq # <<>>

\* -------------------------------------------------------------- axis order
\* C7: a goal (x, y, z) is forwarded as move(pitch = y, roll = x, yaw = z); a
\* mount status is published as (x = pointing_b, y = pointing_a,
\* z = pointing_c), the status being the one the tick has just read; and a
\* published encoder vector fed back as a goal is dispatched as
\* move(pitch = pointing_a, roll = pointing_b, yaw = pointing_c).
C7_GoalReorderInvertsMountReorder ==
    LET moves == Calls("set_gimbal_move")
        encs  == Calls("encoder_pub.publish")
    IN  /\ \A k \in moves :
              /\ trace[k].id \in 1..Len(sent)
              /\ trace[k].arg[1] = [pitch |-> sent[trace[k].id].y,
                                    roll  |-> sent[trace[k].id].x,
                                    yaw   |-> sent[trace[k].id].z]
        /\ \A i \in encs :
              /\ i > 1 /\ trace[i - 1].op = "get_gimbal_mount_status"
              /\ trace[i].arg[1] = [x |-> trace[i - 1].arg[1].pointing_b,
                                    y |-> trace[i - 1].arg[1].pointing_a,
                                    z |-> trace[i - 1].arg[1].pointing_c]
        /\ \A i \in encs, k \in moves :
              sent[trace[k].id] = trace[i].arg[1]
                => trace[k].arg[1] =
                     [pitch |-> trace[i - 1].arg[1].pointing_a,
                      roll  |-> trace[i - 1].arg[1].pointing_b,
                      yaw   |-> trace[i - 1].arg[1].pointing_c]

\* C7 witness: a published encoder vector came back as a goal command and
\* was dispatched.
C7_Witness ==
    \E i \in Calls("encoder_pub.publish"), k \in Calls("set_gimbal_move") :
       i < k /\ sent[trace[k].id] = trace[i].arg[1]

\* ------------------------------------------------------------ configuration
\* The enumerator the mode tables give for a mapped integer.
GimbalModeTable(m) ==
    CASE m = 0 -> "GIMBAL_OFF" [] m = 1 -> "LOCK_MODE" [] m = 2 -> "FOLLOW_MODE"
AxisInputModeTable(m) ==
    CASE m = 0 -> "CTRL_ANGLE_BODY_FRAME" [] m = 1 -> "CTRL_ANGULAR_RATE"
      [] m = 2 -> "CTRL_ANGLE_ABSOLUTE_FRAME"

\* C8: every conversion of an integer in {0,1,2} yields the enumerator of the
\* table, and every conversion of any other integer raises a
\* ConfigurationError instead of yielding a value.
C8_ModeMapperTotalOrError ==
    \A c \in mapped :
      IF c[2] \in MappedInts
        THEN c[3] = IF c[1] = "convertIntGimbalMode"
                      THEN GimbalModeTable(c[2])
                      ELSE AxisInputModeTable(c[2])
        ELSE c[3] = "ConfigurationError"

\* C9: the polling timer is never armed with a period derived from a
\* state_poll_rate that is zero or negative.
C9_TimerArmedWithPositiveRate ==
    timer.armed => timer.period[1] = 1 /\ timer.period[2] > 0

\* C10: while the configuration in force at bring-up has an unmapped gimbal
\* mode or axis input mode, no device call has been made.
C10_NoDeviceCallOnBadModes ==
    (pc # "spin" /\ \E f \in ModeFields : config_[f] \notin MappedInts)
      => CallsOf(DeviceOps) = {}

\* ------------------------------------------------- configuration snapshots
\* An axis argument of set_gimbal_axes_mode is what snapshot `c` gives for
\* the axis whose fields are `mode_field` and `stabilize_field`.
AxisFromSnapshot(a, c, mode_field, stabilize_field) ==
    /\ a.input_mode \in convertIntToAxisInputMode(c[mode_field])
    /\ a.stabilize = c[stabilize_field]

\* C11: config_ is always one whole delivered snapshot, and everything
\* bring-up read from it (the gimbal mode sent, the three axis modes sent,
\* the period of the timer) comes from one and the same snapshot, whatever
\* configuration-change requests arrived meanwhile.
C11_BringupSendsOneSnapshot ==
    LET modes == Calls("set_gimbal_mode")
        axes  == Calls("set_gimbal_axes_mode")
    IN  /\ config_ \in Configs
        /\ \E c \in Configs :
              /\ \A i \in modes :
                    trace[i].arg[1] \in convertIntGimbalMode(c.gimbal_mode)
              /\ \A i \in axes :
                    /\ AxisFromSnapshot(trace[i].arg[1], c,
                          "tilt_axis_input_mode", "tilt_axis_stabilize")
                    /\ AxisFromSnapshot(trace[i].arg[2], c,
                          "roll_axis_input_mode", "roll_axis_stabilize")
                    /\ AxisFromSnapshot(trace[i].arg[3], c,
                          "pan_axis_input_mode", "pan_axis_stabilize")
              /\ timer.armed => timer.period = <<1, c.state_poll_rate>>

\* C11 witness: a request for a snapshot with another gimbal mode and other
\* axis modes arrived while bring-up was running, and bring-up has sent the
\* gimbal mode and the axis modes.
C11_Witness ==
    /\ pc = "create_timer"
    /\ Calls("set_gimbal_axes_mode") # {}
    /\ \E k \in 1..Len(cbq) :
          /\ cbq[k].kind = "reconfigure"
          /\ cbq[k].config.gimbal_mode # config_.gimbal_mode
          /\ cbq[k].config.tilt_axis_input_mode # config_.tilt_axis_input_mode

\* ------------------------------------------------------------- link errors
\* The marked device calls of bring-up and those of the polling ticks.
BringupFaults == {i \in faults : trace[i].id = 0}
TickFaults == {i \in faults : trace[i].op \in TelemetryOps}

\* C12: after a device call of bring-up met a communication error, bring-up
\* makes no further device call, the polling timer is not armed and the
\* constructor does not go on to ros::spin().
C12_BringupErrorIsFatal ==
    \A i \in BringupFaults :
       /\ \A j \in (i + 1)..Len(trace) : trace[j].op \notin DeviceOps
       /\ ~timer.armed
       /\ pc # "spin"

\* C13: a polling tick one of whose device reads met a communication error
\* publishes nothing, and the process and its armed timer outlive it.
C13_FailedTickPublishesNothing ==
    \A i \in TickFaults :
       /\ \A j \in CallsOf(PublishOps) : trace[j].id # trace[i].id
       /\ Alive /\ timer.armed

\* ------------------------------------------------------ message translator
\* The IMU record that carries the six readings of `sample` unchanged.
ImuRecordOf(sample) ==
    [linear_acceleration |->
        [x |-> sample.xacc, y |-> sample.yacc, z |-> sample.zacc],
     angular_velocity |->
        [x |-> sample.xgyro, y |-> sample.ygyro, z |-> sample.zgyro]]

\* C14: the translation of every raw IMU sample carries its accelerations
\* and angular rates unchanged and in place, and the IMU record a tick
\* publishes is that translation of the sample the same tick read from the
\* device two steps earlier.
C14_ImuPublishedIsSampleOfSameTick ==
    /\ \A sample \in RawImuSamples :
          convertImuMavlinkMessageToROSMessage(sample) = ImuRecordOf(sample)
    /\ \A i \in Calls("imu_pub.publish") :
          /\ i > 2
          /\ trace[i - 2].op = "get_gimbal_raw_imu"
          /\ trace[i - 2].id = trace[i].id
          /\ trace[i].arg[1] = ImuRecordOf(trace[i - 2].arg[1])

\* C14 witness: two ticks read different samples and each published its own.
C14_Witness ==
    \E i, k \in Calls("imu_pub.publish") :
       /\ i < k
       /\ trace[i - 2].arg[1] # trace[k - 2].arg[1]
       /\ trace[i].arg[1] # trace[k].arg[1]

\* ------------------------------------------------------- bring-up liveness
\* Bring-up is complete: both mode calls were issued and the timer is armed.
BringupDone ==
    /\ Calls("set_gimbal_mode") # {}
    /\ Calls("set_gimbal_axes_mode") # {}
    /\ timer.armed

\* C15: while the device reports ON and bring-up is not complete, the
\* constructor has a statement to execute, so that a main thread that keeps
\* running completes bring-up once the device stays ON, whatever the initial
\* status and however the status changed before.
C15_BringupProceedsWhileOn ==
    (status = GIMBAL_STATE_ON /\ ~BringupDone) => ENABLED Bringup

\* The same as a property of whole runs: if the device is eventually ON for
\* good, bring-up is eventually complete.
BringupTerminatesOnceOn ==
    (<>[](status = GIMBAL_STATE_ON)) => <>BringupDone

\* --------------------------------------------------------------- axis modes
\* Axis argument `a` is built from the two fields of its own axis.
AxisFromOwnFields(a, input_mode, stabilize) ==
    /\ a.stabilize = stabilize
    /\ input_mode \in MappedInts => a.input_mode = AxisInputModeTable(input_mode)

\* C16: bring-up issues set_gimbal_axes_mode at most once, exactly once when
\* it has passed that statement; the call carries the three axes together,
\* and its tilt, roll and pan arguments are the mapped input mode and the
\* stabilize flag of the tilt, roll and pan fields of the configuration in
\* force during bring-up.
C16_AxesSentOnceFromOwnFields ==
    LET axes == Calls("set_gimbal_axes_mode")
    IN  /\ Cardinality(axes) <= 1
        /\ pc \in {"create_timer", "spin"} => Cardinality(axes) = 1
        /\ \A i \in axes :
              /\ Len(trace[i].arg) = 3
              /\ pc # "spin" =>
                    /\ AxisFromOwnFields(trace[i].arg[1],
                          config_.tilt_axis_input_mode, config_.tilt_axis_stabilize)
                    /\ AxisFromOwnFields(trace[i].arg[2],
                          config_.roll_axis_input_mode, config_.roll_axis_stabilize)
                    /\ AxisFromOwnFields(trace[i].arg[3],
                          config_.pan_axis_input_mode, config_.pan_axis_stabilize)

\* C16 witness: the call was issued for a configuration whose three axes have
\* three different mapped input modes and differing stabilize flags.
C16_Witness ==
    /\ pc = "create_timer"
    /\ Calls("set_gimbal_axes_mode") # {}
    /\ {config_.tilt_axis_input_mode, config_.roll_axis_input_mode,
         config_.pan_axis_input_mode} = MappedInts
    /\ config_.tilt_axis_stabilize # config_.roll_axis_stabilize

\* ------------------------------------------------- reconfigure after bring-up
\* C17: the step in which a configuration-change callback is handled stores
\* the requested snapshot and leaves the device calls and publishes made, the
\* timer and the main thread's position as they were; and once the timer is
\* armed it stays armed with the period it was armed with.
C17_ReconfigureChangesOnlySnapshot ==
    [][
        /\ \A f \in running :
              (f.kind = "reconfigure" /\ f \notin running') =>
                 /\ config_' = f.config
                 /\ trace' = trace
                 /\ timer' = timer
                 /\ pc' = pc
        /\ timer.armed => (timer'.armed /\ timer'.period = timer.period)
    ]_vars

\* C17 witness: a configuration change with another state_poll_rate was
\* handled while the timer was armed, and the timer has expired since.
C17_Witness ==
    /\ reconfs > 0 /\ running = {}
    /\ \A k \in 1..Len(cbq) : cbq[k].kind # "reconfigure"
    /\ timer.armed
    /\ timer.period # <<1, config_.state_poll_rate>>
    /\ ticks > 0

====
